---- MODULE Spec2Model ----
(***************************************************************************)
(* sitedown.py: a single-threaded crawler.  main() runs list_paths         *)
(* (enumerate mode) or crawl_website followed by write_markdown_file       *)
(* (fetch mode).  A URL string is modelled by the components urlparse      *)
(* splits it into, plus `hash`, which tells whether the string carries a   *)
(* '#' (so that "u#" and "u" are different strings with the same parse).   *)
(* A path is a sequence of one-character strings.                          *)
(***************************************************************************)
EXTENDS Integers, Sequences, FiniteSets, TLC

VARIABLES start_url, exclude_paths, list_mode,
          to_visit, visited, pages_content, urls_found,
          normalized_current_url, response, pc,
          fetch_log, output_writes, printed, last

vars == <<start_url, exclude_paths, list_mode, to_visit, visited,
          pages_content, urls_found, normalized_current_url, response, pc,
          fetch_log, output_writes, printed, last>>

\* ---------------------------------------------------------------- bounds
MaxLinks == 3
MaxPages == 3
MaxSiteLinks == 3

\* ------------------------------------------------------- strings and URLs
Url(s, n, p, h, f) == [scheme |-> s, netloc |-> n, path |-> p, hash |-> h, fragment |-> f]

P_d   == <<"/", "d">>
P_dA  == <<"/", "d", "/", "A">>
P_db  == <<"/", "d", "/", "b">>

U_d     == Url("https", "ex.com", P_d, FALSE, "")      \* https://ex.com/d
U_root  == Url("https", "ex.com", <<"/">>, FALSE, "")  \* https://ex.com/
U_bare  == Url("https", "ex.com", <<>>, FALSE, "")     \* https://ex.com
U_dfrag == Url("https", "ex.com", P_d, TRUE, "s")      \* https://ex.com/d#s
U_dA    == Url("https", "ex.com", P_dA, FALSE, "")     \* https://ex.com/d/A

NoExclude == <<>>
ExcludeDa == << <<"D", "/", "a">> >>                   \* -e D/a

\* the command lines main() is run with: url, --exclude, --list-paths
CommandLines ==
  { [url |-> U_d,     exclude |-> NoExclude, list_paths |-> FALSE],
    [url |-> U_d,     exclude |-> ExcludeDa, list_paths |-> FALSE],
    [url |-> U_root,  exclude |-> ExcludeDa, list_paths |-> FALSE],
    [url |-> U_bare,  exclude |-> NoExclude, list_paths |-> FALSE],
    [url |-> U_dfrag, exclude |-> NoExclude, list_paths |-> FALSE],
    [url |-> U_dA,    exclude |-> ExcludeDa, list_paths |-> FALSE],
    [url |-> U_d,     exclude |-> ExcludeDa, list_paths |-> TRUE],
    [url |-> U_root,  exclude |-> NoExclude, list_paths |-> TRUE],
    [url |-> U_dfrag, exclude |-> NoExclude, list_paths |-> TRUE] }

\* the href attributes a fetched page can carry
Hrefs ==
  { Url("", "", P_dA, FALSE, ""),                    \* /d/A
    Url("", "", P_db, TRUE, "s"),                    \* /d/b#s
    Url("", "", P_db, TRUE, ""),                     \* /d/b#
    Url("https", "ot.com", P_dA, FALSE, ""),         \* https://ot.com/d/A
    Url("", "", <<>>, TRUE, "s"),                    \* #s
    Url("mailto", "", <<"m">>, FALSE, ""),           \* mailto:m
    Url("", "", <<"b">>, FALSE, "") }                \* b

Texts == {"t"}

SeqsUpTo(S, n) == UNION { [1..k -> S] : k \in 0..n }

\* `response` holds the outcome of the current iteration's requests.get
NoResponse == [ok |-> FALSE, text |-> "", links |-> <<>>]

\* ---------------------------------------------------------- urllib.parse
uses_relative == {"", "http", "https", "ftp", "file"}
uses_netloc   == {"", "http", "https", "ftp", "file"}

\* urlparse(url): the '#' itself is not part of the parse result
urlparse(url) ==
  [scheme |-> url.scheme, netloc |-> url.netloc, path |-> url.path,
   fragment |-> url.fragment]

\* ParseResult.geturl(): a '#' is written only for a non-empty fragment
geturl(p) == Url(p.scheme, p.netloc, p.path, p.fragment # "", p.fragment)

\* a strip that returns the string as it is
StripFragmentNone(url) == url

\* a strip that empties the fragment but leaves the '#' in the string
StripFragmentKeepHash(url) == [url EXCEPT !.fragment = ""]

\* urlparse(u)._replace(fragment='').geturl()
StripFragment(url) == geturl([urlparse(url) EXCEPT !.fragment = ""])

RECURSIVE LastSlash(_, _)
LastSlash(p, i) == IF i = 0 THEN 0 ELSE IF p[i] = "/" THEN i ELSE LastSlash(p, i - 1)

\* the directory of the base path; a base path without '/' resolves at the root
DirOf(bpath) ==
  LET k == LastSlash(bpath, Len(bpath))
  IN  IF k = 0 THEN <<"/">> ELSE SubSeq(bpath, 1, k)

\* urljoin(base, url) for references without dot segments, params or query
urljoin(base, url) ==
  LET b == urlparse(base)
      u == urlparse(url)
      scheme == IF u.scheme = "" THEN b.scheme ELSE u.scheme
  IN  IF url = Url("", "", <<>>, FALSE, "") THEN base
      ELSE IF scheme # b.scheme \/ scheme \notin uses_relative THEN url
      ELSE IF scheme \in uses_netloc /\ u.netloc # ""
        THEN geturl([u EXCEPT !.scheme = scheme])
      ELSE IF u.path = <<>>
        THEN geturl([scheme |-> scheme, netloc |-> b.netloc, path |-> b.path,
                     fragment |-> u.fragment])
      ELSE IF u.path[1] = "/"
        THEN geturl([scheme |-> scheme, netloc |-> b.netloc, path |-> u.path,
                     fragment |-> u.fragment])
      ELSE geturl([scheme |-> scheme, netloc |-> b.netloc,
                   path |-> DirOf(b.path) \o u.path, fragment |-> u.fragment])

\* href.startswith('#')
StartsWithHash(href) ==
  href.scheme = "" /\ href.netloc = "" /\ href.path = <<>> /\ href.hash

\* ------------------------------------------------------------ str helpers
startswith(s, prefix) ==
  Len(prefix) <= Len(s) /\ SubSeq(s, 1, Len(prefix)) = prefix

\* Python's `sub in s`
contains(s, sub) ==
  \E i \in 0..(Len(s) - Len(sub)) : SubSeq(s, i + 1, i + Len(sub)) = sub

LowerChar(c) ==
  CASE c = "A" -> "a" [] c = "B" -> "b" [] c = "D" -> "d" [] c = "O" -> "o"
    [] OTHER -> c

lower(s) == [i \in 1..Len(s) |-> LowerChar(s[i])]

\* ------------------------------------------------------ sitedown helpers
get_domain(url) == urlparse(url).netloc

get_path(url) == urlparse(url).path

is_internal_link(link, dom) ==
  LET parsed_link == urlparse(link)
  IN  parsed_link.netloc = "" \/ parsed_link.netloc = dom

\* a subpath test that lets every path through
is_in_subpath_any(link, sp) == TRUE

is_in_subpath(link, sp) ==
  LET parsed_link_path == get_path(link)
  IN  IF sp = <<"/">> THEN TRUE
      ELSE startswith(parsed_link_path, sp)

\* an exclusion test that forgets to lower-case the link's path
is_excluded_cs(link, excl) ==
  \E i \in 1..Len(excl) : contains(get_path(link), lower(excl[i]))

is_excluded(link, excl) ==
  LET parsed_link_path == lower(get_path(link))
  IN  \E i \in 1..Len(excl) : contains(parsed_link_path, lower(excl[i]))

\* the Crawl Context, computed from the start URL
domain == get_domain(start_url)
start_path == get_path(start_url)

\* requests.get raises InvalidSchema / MissingSchema / InvalidURL (all
\* RequestException) unless the URL is an http(s) URL with a host
Fetchable(url) == url.scheme \in {"http", "https"} /\ url.netloc # ""

\* html2text's handle(raw_html) with ignore_links: the visible text only
handle(raw_html) == <<"md", raw_html.text>>

\* a mapping that puts a new key first
DictSetFront(d, key, value) == <<[url |-> key, content |-> value]>> \o d

\* pages_content[key] = value on an insertion-ordered dict
DictSet(d, key, value) ==
  IF \E i \in 1..Len(d) : d[i].url = key
    THEN [i \in 1..Len(d) |-> IF d[i].url = key
                                THEN [url |-> key, content |-> value] ELSE d[i]]
    ELSE Append(d, [url |-> key, content |-> value])

Keys(d) == [i \in 1..Len(d) |-> d[i].url]

\* list.pop(): the last element, and the list without it
\* a pop that reads the oldest element
PopItemFirst(s) == s[1]

PopItem(s) == s[Len(s)]
\* a pop that reads the last element but leaves it on the list
PopRestKeep(s) == s

\* a pop that takes two elements off the list
PopRestTwo(s) == SubSeq(s, 1, Len(s) - 2)

PopRest(s) == SubSeq(s, 1, Len(s) - 1)

\* a visited test that never finds the URL
InVisitedNever(url, vis) == FALSE

\* `normalized_current_url in visited`
InVisited(url, vis) == url \in vis

\* `if parsed_link.fragment: continue`
HasFragment(parsed_link) == parsed_link.fragment # ""

\* an admission test without the Visited Tracker test
crawl_admit_revisit(full_url, vis) ==
  /\ is_internal_link(full_url, domain)
  /\ is_in_subpath(full_url, start_path)
  /\ ~is_excluded(full_url, exclude_paths)

\* the admission test of crawl_website
crawl_admit(full_url, vis) ==
  /\ is_internal_link(full_url, domain)
  /\ full_url \notin vis
  /\ is_in_subpath(full_url, start_path)
  /\ ~is_excluded(full_url, exclude_paths)

\* the admission test of list_paths
list_admit(full_url, vis) ==
  /\ is_internal_link(full_url, domain)
  /\ full_url \notin vis
  /\ is_in_subpath(full_url, start_path)

\* the `for link_tag in soup.find_all("a", href=True)` loop of crawl_website:
\* the Frontier after the links of one page
RECURSIVE crawl_links(_, _, _, _)
crawl_links(tv, base, links, vis) ==
  IF links = <<>> THEN tv
  ELSE LET href == Head(links)
           link_url == urljoin(base, href)
           parsed_link == urlparse(link_url)
           full_url == geturl([parsed_link EXCEPT !.fragment = ""])
       IN  IF StartsWithHash(href) THEN crawl_links(tv, base, Tail(links), vis)
           ELSE IF HasFragment(parsed_link) THEN crawl_links(tv, base, Tail(links), vis)
           ELSE IF crawl_admit(full_url, vis)
             THEN crawl_links(Append(tv, full_url), base, Tail(links), vis)
           ELSE crawl_links(tv, base, Tail(links), vis)

\* the same loop of list_paths: the Frontier and urls_found after one page
RECURSIVE list_links(_, _, _, _, _)
list_links(tv, uf, base, links, vis) ==
  IF links = <<>> THEN [to_visit |-> tv, urls_found |-> uf]
  ELSE LET href == Head(links)
           link_url == urljoin(base, href)
           parsed_link == urlparse(link_url)
           full_url == geturl([parsed_link EXCEPT !.fragment = ""])
       IN  IF StartsWithHash(href) THEN list_links(tv, uf, base, Tail(links), vis)
           ELSE IF HasFragment(parsed_link)
             THEN list_links(tv, uf, base, Tail(links), vis)
           ELSE IF list_admit(full_url, vis)
             THEN list_links(Append(tv, full_url), Append(uf, full_url), base,
                             Tail(links), vis)
           ELSE list_links(tv, Append(uf, full_url), base, Tail(links), vis)

NumOk == Len(SelectSeq(fetch_log, LAMBDA e : e.ok))

\* the number of links on the pages fetched so far
RECURSIVE SumLinks(_)
SumLinks(log) == IF log = <<>> THEN 0 ELSE Head(log).nlinks + SumLinks(Tail(log))

\* a page carries at most MaxLinks links, the site's pages MaxSiteLinks in all
LinkBudget ==
  IF MaxSiteLinks - SumLinks(fetch_log) < MaxLinks
    THEN MaxSiteLinks - SumLinks(fetch_log) ELSE MaxLinks

\* a response body: visible text and the <a href> values in document order
Bodies == [text : Texts, links : SeqsUpTo(Hrefs, LinkBudget)]

\* ------------------------------------------------------------------ Init
\* a start that runs the seed through the exclusion test
InitFiltered ==
  /\ \E args \in CommandLines :
       /\ start_url = args.url
       /\ exclude_paths = args.exclude
       /\ list_mode = args.list_paths
  /\ to_visit = IF is_excluded(start_url, exclude_paths) THEN <<>> ELSE <<start_url>>
  /\ visited = {}
  /\ pages_content = <<>>
  /\ urls_found = <<>>
  /\ normalized_current_url = start_url
  /\ response = NoResponse
  /\ pc = "loop"
  /\ fetch_log = <<>>
  /\ output_writes = <<>>
  /\ printed = <<>>
  /\ last = "init"

\* main() has parsed the arguments and entered list_paths or crawl_website
Init ==
  /\ \E args \in CommandLines :
       /\ start_url = args.url
       /\ exclude_paths = args.exclude
       /\ list_mode = args.list_paths
  /\ to_visit = <<start_url>>
  /\ visited = {}
  /\ pages_content = <<>>
  /\ urls_found = <<>>
  /\ normalized_current_url = start_url
  /\ response = NoResponse
  /\ pc = "loop"
  /\ fetch_log = <<>>
  /\ output_writes = <<>>
  /\ printed = <<>>
  /\ last = "init"

\* --------------------------------------------------------------- actions
\* a discard that collects the URL before it tests the Visited Tracker
DiscardCollects ==
  /\ pc = "loop" /\ to_visit # <<>>
  /\ InVisited(StripFragment(PopItem(to_visit)), visited)
  /\ to_visit' = PopRest(to_visit)
  /\ normalized_current_url' = StripFragment(PopItem(to_visit))
  /\ urls_found' = Append(urls_found, StripFragment(PopItem(to_visit)))
  /\ last' = "discard"
  /\ UNCHANGED <<start_url, exclude_paths, list_mode, visited, pages_content,
                 response, pc, fetch_log, output_writes, printed>>

\* pop a URL whose normalized form was already visited: `continue`
Discard ==
  /\ pc = "loop" /\ to_visit # <<>>
  /\ InVisited(StripFragment(PopItem(to_visit)), visited)
  /\ to_visit' = PopRest(to_visit)
  /\ normalized_current_url' = StripFragment(PopItem(to_visit))
  /\ last' = "discard"
  /\ UNCHANGED <<start_url, exclude_paths, list_mode, visited, pages_content,
                 urls_found, response, pc, fetch_log, output_writes, printed>>

\* a pop that goes on to the fetch without marking the URL visited
PopNoMark ==
  /\ pc = "loop" /\ to_visit # <<>>
  /\ ~InVisited(StripFragment(PopItem(to_visit)), visited)
  /\ to_visit' = PopRest(to_visit)
  /\ normalized_current_url' = StripFragment(PopItem(to_visit))
  /\ response' = NoResponse
  /\ pc' = "get"
  /\ last' = "pop"
  /\ UNCHANGED <<start_url, exclude_paths, list_mode, visited, pages_content,
                 urls_found, fetch_log, output_writes, printed>>

\* pop a new URL and mark it visited; the fetch comes next
Pop ==
  /\ pc = "loop" /\ to_visit # <<>>
  /\ ~InVisited(StripFragment(PopItem(to_visit)), visited)
  /\ to_visit' = PopRest(to_visit)
  /\ normalized_current_url' = StripFragment(PopItem(to_visit))
  /\ visited' = visited \cup {StripFragment(PopItem(to_visit))}
  /\ response' = NoResponse
  /\ pc' = "get"
  /\ last' = "pop"
  /\ UNCHANGED <<start_url, exclude_paths, list_mode, pages_content,
                 urls_found, fetch_log, output_writes, printed>>

\* a failure handler that still records a Page Record for the URL
FetchFailRecords ==
  /\ pc = "get"
  /\ response' = NoResponse
  /\ fetch_log' = Append(fetch_log, [url |-> normalized_current_url, ok |-> FALSE,
                                      nlinks |-> 0])
  /\ pages_content' = IF list_mode THEN pages_content
                      ELSE DictSet(pages_content, normalized_current_url, <<"md", "">>)
  /\ pc' = "loop"
  /\ last' = "fail"
  /\ UNCHANGED <<start_url, exclude_paths, list_mode, to_visit, visited,
                 urls_found, normalized_current_url, output_writes, printed>>

\* requests.get or raise_for_status raises RequestException: `continue`
FetchFail ==
  /\ pc = "get"
  /\ response' = NoResponse
  /\ fetch_log' = Append(fetch_log, [url |-> normalized_current_url, ok |-> FALSE,
                                      nlinks |-> 0])
  /\ pc' = "loop"
  /\ last' = "fail"
  /\ UNCHANGED <<start_url, exclude_paths, list_mode, to_visit, visited,
                 pages_content, urls_found, normalized_current_url,
                 output_writes, printed>>

\* crawl_website: a successful fetch, the Page Record and the page's links
CrawlPage ==
  /\ pc = "get" /\ ~list_mode
  /\ Fetchable(normalized_current_url) /\ NumOk < MaxPages
  /\ \E body \in Bodies :
       /\ response' = [ok |-> TRUE, text |-> body.text, links |-> body.links]
       /\ pages_content' = DictSet(pages_content, normalized_current_url, handle(body))
       /\ to_visit' = crawl_links(to_visit, normalized_current_url, body.links, visited)
       /\ fetch_log' = Append(fetch_log, [url |-> normalized_current_url, ok |-> TRUE,
                                           nlinks |-> Len(body.links)])
  /\ pc' = "loop"
  /\ last' = "page"
  /\ UNCHANGED <<start_url, exclude_paths, list_mode, visited, urls_found,
                 normalized_current_url, output_writes, printed>>

\* list_paths: a successful fetch, the URL and every link are collected
ListPage ==
  /\ pc = "get" /\ list_mode
  /\ Fetchable(normalized_current_url) /\ NumOk < MaxPages
  /\ \E body \in Bodies :
       LET r == list_links(to_visit, Append(urls_found, normalized_current_url),
                           normalized_current_url, body.links, visited)
       IN  /\ response' = [ok |-> TRUE, text |-> body.text, links |-> body.links]
           /\ to_visit' = r.to_visit
           /\ urls_found' = r.urls_found
           /\ fetch_log' = Append(fetch_log, [url |-> normalized_current_url,
                                               ok |-> TRUE, nlinks |-> Len(body.links)])
  /\ pc' = "loop"
  /\ last' = "page"
  /\ UNCHANGED <<start_url, exclude_paths, list_mode, visited, pages_content,
                 normalized_current_url, output_writes, printed>>

\* `while to_visit:` is false: the traversal returns to main
Return ==
  /\ pc = "loop" /\ to_visit = <<>>
  /\ pc' = "returned"
  /\ last' = "return"
  /\ UNCHANGED <<start_url, exclude_paths, list_mode, to_visit, visited,
                 pages_content, urls_found, normalized_current_url, response,
                 fetch_log, output_writes, printed>>

\* a main that writes the file in either mode
WriteMarkdownFileAnyMode ==
  /\ pc = "returned"
  /\ output_writes' = Append(output_writes, pages_content)
  /\ pc' = "exit"
  /\ last' = "write"
  /\ UNCHANGED <<start_url, exclude_paths, list_mode, to_visit, visited,
                 pages_content, urls_found, normalized_current_url, response,
                 fetch_log, printed>>

\* main, fetch mode: write_markdown_file(pages_content, args.output)
WriteMarkdownFile ==
  /\ pc = "returned" /\ ~list_mode
  /\ output_writes' = Append(output_writes, pages_content)
  /\ pc' = "exit"
  /\ last' = "write"
  /\ UNCHANGED <<start_url, exclude_paths, list_mode, to_visit, visited,
                 pages_content, urls_found, normalized_current_url, response,
                 fetch_log, printed>>

\* main, enumerate mode: print every collected URL
PrintUrls ==
  /\ pc = "returned" /\ list_mode
  /\ printed' = urls_found
  /\ pc' = "exit"
  /\ last' = "print"
  /\ UNCHANGED <<start_url, exclude_paths, list_mode, to_visit, visited,
                 pages_content, urls_found, normalized_current_url, response,
                 fetch_log, output_writes>>

Next ==
  \/ Discard
  \/ Pop
  \/ FetchFail
  \/ CrawlPage
  \/ ListPage
  \/ Return
  \/ WriteMarkdownFile
  \/ PrintUrls

Spec == Init /\ [][Next]_vars

\* the loop and main are sequential code: every enabled step is eventually taken
FairSpec == Spec /\ WF_vars(Next)

\* ------------------------------------------- the normalizer on its own
\* the URL strings the normalizer is applied to
NormUrls ==
  { Url(sc, n, pa, fr[1], fr[2]) :
      sc \in {"https", "mailto"}, n \in {"ex.com", ""},
      pa \in {<<>>, <<"/">>, P_d, P_db},
      fr \in {<<FALSE, "">>, <<TRUE, "">>, <<TRUE, "s">>, <<TRUE, "t">>} }

\* the same URL string cut before its '#'
WithoutFragment(url) == [url EXCEPT !.hash = FALSE, !.fragment = ""]

NormInit ==
  /\ start_url \in NormUrls
  /\ exclude_paths = <<>>
  /\ list_mode = FALSE
  /\ to_visit = <<>>
  /\ visited = {}
  /\ pages_content = <<>>
  /\ urls_found = <<>>
  /\ normalized_current_url = start_url
  /\ response = NoResponse
  /\ pc = "norm0"
  /\ fetch_log = <<>>
  /\ output_writes = <<>>
  /\ printed = <<>>
  /\ last = "init"

\* normalize the URL as it is popped
NormalizeOnce ==
  /\ pc = "norm0"
  /\ normalized_current_url' = StripFragment(start_url)
  /\ pc' = "norm1"
  /\ UNCHANGED <<start_url, exclude_paths, list_mode, to_visit, visited,
                 pages_content, urls_found, response, fetch_log,
                 output_writes, printed, last>>

\* normalize the normalized URL again
NormalizeTwice ==
  /\ pc = "norm1"
  /\ to_visit' = <<StripFragment(normalized_current_url)>>
  /\ pc' = "norm2"
  /\ UNCHANGED <<start_url, exclude_paths, list_mode, visited,
                 pages_content, urls_found, normalized_current_url, response,
                 fetch_log, output_writes, printed, last>>

\* normalize the URL written without its fragment
NormalizeBare ==
  /\ pc = "norm2"
  /\ visited' = {StripFragment(WithoutFragment(start_url))}
  /\ pc' = "norm3"
  /\ UNCHANGED <<start_url, exclude_paths, list_mode, to_visit,
                 pages_content, urls_found, normalized_current_url, response,
                 fetch_log, output_writes, printed, last>>

NormNext == NormalizeOnce \/ NormalizeTwice \/ NormalizeBare

NormSpec == NormInit /\ [][NormNext]_vars

TypeOK == pc \in {"loop", "get", "returned", "exit"}

\* ------------------------------------------------------ claim vocabulary
Range(s) == { s[i] : i \in DOMAIN s }

FetchedUrls == { fetch_log[i].url : i \in DOMAIN fetch_log }

OkUrls == SelectSeq(fetch_log, LAMBDA e : e.ok)

\* a step that fetched a page successfully and went through its links
PageStep == pc = "get" /\ pc' = "loop" /\ response'.ok

\* a step whose fetch failed
FailStep == pc = "get" /\ pc' = "loop" /\ ~response'.ok

\* the URL a link of the page just fetched resolves to
Target(href) == urljoin(normalized_current_url, href)

\* C1: the HTTP collaborator is invoked at most once per normalized URL,
\* in both modes, also for a URL pushed several times before it is popped.
C1_AtMostOnce ==
  \A i, j \in DOMAIN fetch_log :
    StripFragment(fetch_log[i].url) = StripFragment(fetch_log[j].url) => i = j

\* a URL that was pushed twice has been fetched, and its second copy dropped
C1_Witness ==
  /\ last = "discard"
  /\ \E i \in DOMAIN fetch_log : fetch_log[i].url = normalized_current_url

\* C2: every URL on the Frontier or passed to the HTTP collaborator has the
\* start URL's host.
C2_DomainRestriction ==
  \A u \in Range(to_visit) \cup FetchedUrls : get_domain(u) = domain

\* C3: with a start path other than '/' and '', every URL pushed or fetched
\* has a path that starts with the start path; with start path '/' or '',
\* every same-domain link (not skipped, unvisited, not excluded) is pushed
\* whatever its path.
C3_Contained ==
  start_path \notin {<<"/">>, <<>>} =>
    \A u \in Range(to_visit) \cup FetchedUrls : startswith(get_path(u), start_path)

C3_RootAdmitsAll ==
  (PageStep /\ start_path \in {<<"/">>, <<>>}) =>
    \A k \in DOMAIN response'.links :
      LET href == response'.links[k]
          u == Target(href)
      IN  ( /\ ~StartsWithHash(href)
            /\ u.fragment = ""
            /\ get_domain(u) = domain
            /\ u \notin visited
            /\ (list_mode \/ ~is_excluded(u, exclude_paths)) )
          => StripFragment(u) \in Range(to_visit')

C3_SubpathContainment == [](C3_Contained) /\ [][C3_RootAdmitsAll]_vars

\* under start path /d a page carried an unvisited same-domain link whose
\* path is outside /d, and the page's links have been gone through
C3_Witness ==
  /\ last = "page" /\ start_path = P_d
  /\ \E k \in DOMAIN response.links :
       LET u == Target(response.links[k])
       IN  /\ ~StartsWithHash(response.links[k])
           /\ get_domain(u) = domain
           /\ u \notin visited
           /\ ~startswith(get_path(u), start_path)

\* C4: in fetch mode no link whose lower-cased path contains a lower-cased
\* exclusion entry is pushed, and no URL other than the seed is fetched with
\* such a path.
C4_NoExcludedPush ==
  (PageStep /\ ~list_mode) =>
    /\ Len(to_visit') >= Len(to_visit)
    /\ SubSeq(to_visit', 1, Len(to_visit)) = to_visit
    /\ \A i \in (Len(to_visit) + 1)..Len(to_visit') :
         \A e \in DOMAIN exclude_paths :
           ~contains(lower(get_path(to_visit'[i])), lower(exclude_paths[e]))

C4_NoExcludedFetch ==
  ~list_mode =>
    \A u \in (Range(to_visit) \cup FetchedUrls) \ {start_url, StripFragment(start_url)} :
      \A i \in DOMAIN exclude_paths :
        ~contains(lower(get_path(u)), lower(exclude_paths[i]))

C4_ExclusionPrecedence == [](C4_NoExcludedFetch) /\ [][C4_NoExcludedPush]_vars

\* a page carried a same-domain, in-subpath, unvisited link that is excluded
C4_Witness ==
  /\ last = "page" /\ ~list_mode
  /\ \E k \in DOMAIN response.links :
       LET u == Target(response.links[k])
       IN  /\ ~StartsWithHash(response.links[k])
           /\ u.fragment = ""
           /\ get_domain(u) = domain
           /\ startswith(get_path(u), start_path)
           /\ u \notin visited
           /\ \E i \in DOMAIN exclude_paths :
                contains(lower(get_path(u)), lower(exclude_paths[i]))

\* C5: with finitely many reachable URLs the traversal loop reaches DONE
\* (the Frontier is empty and the loop is left), whatever fetches fail.
C5_Termination == <>(pc = "returned" /\ to_visit = <<>>)

\* the loop was left after a run with a successful and a failed fetch
C5_Witness ==
  /\ pc = "returned"
  /\ \E i, j \in DOMAIN fetch_log : fetch_log[i].ok /\ ~fetch_log[j].ok

\* C6: a failed fetch leaves the URL visited, creates no Page Record, pushes
\* no link, and the loop goes on with the Frontier items that remain.
C6_FailedHaveNoRecord ==
  \A i \in DOMAIN fetch_log :
    ~fetch_log[i].ok =>
      /\ fetch_log[i].url \in visited
      /\ fetch_log[i].url \notin Range(Keys(pages_content))

C6_FailStepFrame ==
  FailStep =>
    /\ normalized_current_url \in visited'
    /\ pages_content' = pages_content
    /\ urls_found' = urls_found
    /\ to_visit' = to_visit

C6_FailureNonFatal ==
  /\ [](C6_FailedHaveNoRecord)
  /\ [][C6_FailStepFrame]_vars
  /\ ((last = "fail" /\ to_visit # <<>>) ~> (to_visit = <<>>))

\* a fetch failed and a URL that was on the Frontier then was fetched after it
C6_Witness ==
  \E i, j \in DOMAIN fetch_log : i < j /\ ~fetch_log[i].ok /\ fetch_log[j].ok

\* the three filter predicates on a link's fragment-stripped URL
PassesFilter(u) ==
  /\ get_domain(u) = domain
  /\ startswith(get_path(u), start_path)
  /\ \A e \in DOMAIN exclude_paths :
       ~contains(lower(get_path(u)), lower(exclude_paths[e]))

\* C7: a link of a fetched page whose resolved URL carries a non-empty
\* fragment is admitted to the Frontier in fragment-stripped form when it
\* passes the three filters and is not visited.
C7_FragmentStrippedAdmission ==
  [][PageStep =>
      \A k \in DOMAIN response'.links :
        LET u == Target(response'.links[k])
        IN  ( /\ u.fragment # ""
              /\ ~StartsWithHash(response'.links[k])
              /\ PassesFilter(StripFragment(u))
              /\ StripFragment(u) \notin visited )
            => StripFragment(u) \in Range(to_visit')]_vars

\* C8: in fetch mode the Page Record keys are, in order, the URLs whose fetch
\* succeeded, one record each, and no record is ever overwritten; the file
\* is written in that order.
C8_KeysAreOkFetches ==
  /\ ~list_mode => Keys(pages_content) = [i \in DOMAIN OkUrls |-> OkUrls[i].url]
  /\ list_mode => pages_content = <<>>
  /\ \A i, j \in DOMAIN pages_content :
       pages_content[i].url = pages_content[j].url => i = j
  /\ \A w \in DOMAIN output_writes : output_writes[w] = pages_content

C8_NoOverwrite ==
  /\ Len(pages_content') >= Len(pages_content)
  /\ \A i \in DOMAIN pages_content : pages_content'[i] = pages_content[i]

C8_PageRecords == [](C8_KeysAreOkFetches) /\ [][C8_NoOverwrite]_vars

\* two pages were recorded in a run in which another fetch failed
C8_Witness ==
  /\ ~list_mode /\ Len(pages_content) >= 2
  /\ \E i \in DOMAIN fetch_log : ~fetch_log[i].ok

\* C9: in enumerate mode every extracted hyperlink other than a bare '#...'
\* reference is recorded in the output list, whether or not it passes the
\* Link Filter.
C9_EnumerateVisibility ==
  [][(PageStep /\ list_mode) =>
      \A k \in DOMAIN response'.links :
        ~StartsWithHash(response'.links[k]) =>
          \E n \in (Len(urls_found) + 1)..Len(urls_found') :
            urls_found'[n] \in {Target(response'.links[k]),
                                StripFragment(Target(response'.links[k]))}]_vars

\* C10: the output file is written exactly once, in fetch mode only, and
\* only after the traversal returned with an empty Frontier; enumerate mode
\* writes no file.
C10_WriteState ==
  /\ Len(output_writes) <= 1
  /\ list_mode => output_writes = <<>>
  /\ output_writes # <<>> => (pc = "exit" /\ to_visit = <<>>)
  /\ (pc = "exit" /\ ~list_mode) => Len(output_writes) = 1

C10_WriteStep ==
  output_writes' # output_writes =>
    /\ pc = "returned" /\ to_visit = <<>> /\ ~list_mode
    /\ output_writes' = <<pages_content>>

C10_WriteOnceAtEnd == [](C10_WriteState) /\ [][C10_WriteStep]_vars

\* the file was written after a crawl that recorded a page
C10_Witness ==
  /\ pc = "exit" /\ ~list_mode
  /\ Len(output_writes) = 1 /\ output_writes[1] # <<>>

\* C11: stripping the fragment twice gives the same string as stripping it
\* once, and a URL with any fragment (an empty one included) normalizes to
\* the same string as the URL without a fragment.
C11_NormalizeIdempotentErasing ==
  /\ pc \in {"norm1", "norm2", "norm3"} =>
       (~normalized_current_url.hash /\ normalized_current_url.fragment = "")
  /\ pc \in {"norm2", "norm3"} => to_visit = <<normalized_current_url>>
  /\ pc = "norm3" => visited = {normalized_current_url}

\* a URL with an empty fragment ("u#") has gone through the three strips
C11_Witness ==
  pc = "norm3" /\ start_url.hash /\ start_url.fragment = ""

\* the admission rule of the Link Filter plus the Visited Tracker test
AdmittedByRule(u) ==
  /\ is_internal_link(u, domain)
  /\ is_in_subpath(u, start_path)
  /\ ~is_excluded(u, exclude_paths)
  /\ u \notin visited

\* the URLs that rule admits among the links of a page, in document order
RuleAdmissions(links) ==
  LET kept == SelectSeq(links, LAMBDA h :
                /\ ~StartsWithHash(h)
                /\ Target(h).fragment = ""
                /\ AdmittedByRule(StripFragment(Target(h))))
  IN  [i \in DOMAIN kept |-> StripFragment(Target(kept[i]))]

\* C12: in both modes a discovered link is pushed iff it is same-domain,
\* within the subpath, not excluded and not visited, so both modes push the
\* same URLs from the same page.
C12_SameAdmissionRule ==
  [][PageStep => to_visit' = to_visit \o RuleAdmissions(response'.links)]_vars

IsNormalized(u) == ~u.hash /\ u.fragment = ""

\* C13: every URL held in the Frontier or in the Visited Tracker is
\* normalized, whatever the start URL.
C13_AllNormalized ==
  \A u \in Range(to_visit) \cup visited : IsNormalized(u)

\* C13 as amended: the Visited Tracker holds only normalized URLs, and so
\* does the Frontier except for the seed, which is the start URL as given.
C13_NormalizedExceptSeed ==
  /\ \A u \in visited : IsNormalized(u)
  /\ \A i \in DOMAIN to_visit :
       IsNormalized(to_visit[i])
         \/ (last = "init" /\ i = 1 /\ to_visit[i] = start_url)

\* a run whose start URL carries a fragment has visited the start page and
\* pushed links
C13_Witness ==
  /\ start_url.fragment # "" /\ last = "page"
  /\ to_visit # <<>> /\ visited # {}

\* C14: each pop takes the most recently pushed URL still on the Frontier
\* and a page's links are pushed on top, so they are popped before anything
\* that was on the Frontier earlier.
C14_StackStep ==
  /\ Len(to_visit') < Len(to_visit) =>
       /\ to_visit' = SubSeq(to_visit, 1, Len(to_visit) - 1)
       /\ normalized_current_url' = StripFragment(to_visit[Len(to_visit)])
  /\ Len(to_visit') >= Len(to_visit) =>
       /\ SubSeq(to_visit', 1, Len(to_visit)) = to_visit
       /\ (to_visit' # to_visit => PageStep)

C14_LifoOrder == [][C14_StackStep]_vars

\* the URL pushed last by a page was popped while an earlier, different
\* link of that page is still on the Frontier
C14_Witness ==
  /\ last = "pop" /\ fetch_log # <<>>
  /\ to_visit # <<>>
  /\ normalized_current_url \notin Range(to_visit)

\* C15: popping a URL whose normalized form is already visited removes that
\* one Frontier entry and changes nothing else.
C15_DiscardStep ==
  (pc = "loop" /\ to_visit # <<>>
     /\ StripFragment(to_visit[Len(to_visit)]) \in visited) =>
    /\ to_visit' = SubSeq(to_visit, 1, Len(to_visit) - 1)
    /\ visited' = visited
    /\ pages_content' = pages_content
    /\ urls_found' = urls_found
    /\ fetch_log' = fetch_log
    /\ output_writes' = output_writes
    /\ pc' = "loop"

C15_DiscardNoSideEffects == [][C15_DiscardStep]_vars

\* an already-visited URL was dropped while other URLs wait on the Frontier
C15_Witness ==
  /\ last = "discard" /\ normalized_current_url \in visited
  /\ to_visit # <<>>

\* C17: no step removes a URL from the Visited Tracker, and when the HTTP
\* collaborator is invoked for a URL the URL is already in it, whether the
\* fetch succeeds or fails.
C17_MarkedAtGet == pc = "get" => normalized_current_url \in visited

C17_VisitedStep ==
  /\ visited \subseteq visited'
  /\ fetch_log' # fetch_log =>
       /\ Len(fetch_log') = Len(fetch_log) + 1
       /\ fetch_log'[Len(fetch_log')].url \in visited

C17_VisitedMonotoneMarkedFirst == [](C17_MarkedAtGet) /\ [][C17_VisitedStep]_vars

\* a fetch has failed for the second or a later URL of the run
C17_Witness ==
  /\ last = "fail" /\ Cardinality(visited) >= 2
  /\ normalized_current_url \in visited

\* C18: no step loses a Frontier entry (it stays, or its normalized form is
\* visited), so when the loop is left the Frontier is empty and every URL
\* that was pushed is visited and has had exactly one fetch attempt.
C18_NoEntryLost ==
  /\ visited \subseteq visited'
  /\ \A i \in DOMAIN to_visit :
       \/ StripFragment(to_visit[i]) \in visited'
       \/ to_visit[i] \in Range(to_visit')

C18_AtDone ==
  pc \in {"returned", "exit"} =>
    /\ to_visit = <<>>
    /\ FetchedUrls = visited
    /\ \A v \in visited :
         Cardinality({i \in DOMAIN fetch_log : fetch_log[i].url = v}) = 1

C18_CoverageAtTermination == [](C18_AtDone) /\ [][C18_NoEntryLost]_vars

\* the loop was left after three URLs went through the Frontier
C18_Witness == pc = "returned" /\ Cardinality(visited) >= 3

C20_GrowStep ==
  Len(to_visit') > Len(to_visit) =>
    /\ PageStep
    /\ \A i \in (Len(to_visit) + 1)..Len(to_visit') : to_visit'[i] \notin visited

C20_KeysVisited == Range(Keys(pages_content)) \subseteq visited

C20_FrontierGrowsOnSuccess == [](C20_KeysVisited) /\ [][C20_GrowStep]_vars

\* a fetched page linked to an already-visited URL while the Frontier holds
\* pushed URLs
C20_Witness ==
  /\ last = "page" /\ to_visit # <<>>
  /\ \E k \in DOMAIN response.links :
       /\ ~StartsWithHash(response.links[k])
       /\ Target(response.links[k]).fragment = ""
       /\ StripFragment(Target(response.links[k])) \in visited

====
